---- MODULE Spec2Model ----
(***************************************************************************)
(* StoryForge: the session manager (storyforge/session_manager.py) and the *)
(* orchestrator's pipeline (storyforge/orchestrator.py), with the session  *)
(* files on disk and the processes that run, crash and resume.             *)
(***************************************************************************)
EXTENDS Integers, Sequences, FiniteSets, TLC

\* ------------------------------------------------------------------ bounds
\* Seconds of wall-clock time; a session id is the second it was created in.
MaxTime == 1
\* Processes (pipeline runs) started one after the other.
MaxRuns == 2
\* create_session calls over all runs.
MaxSessions == 1
\* SessionManager calls made by a caller other than run() (SpecSM only).
MaxApiCalls == 3
\* create_session calls among them.
MaxDirectCreates == 2

\* ------------------------------------------------------------- vocabulary
STAGES == <<"settings", "planning", "writing", "qa", "consistency">>

StageNames == {STAGES[i] : i \in 1..Len(STAGES)}

\* Python's None, where a dict or a session is expected.
None == [py |-> "None"]

\* Python's None in the string-valued field project_path, and in final_score.
NoPath == "<None>"
NoScore == 0 - 1

UserPrompt == "prompt"

\* A path string is the sequence of its characters; None and "" are <<>>
\* (the tools test a path with "if not path").
NoProject == <<>>

\* The project folder create_project makes in get_output_root().
StoryFolder == <<"/", "o", "/", "s">>

\* Markdown files of a project: a file with a name of the model's choosing,
\* and the files write_chapter names Chapter_01.md, Chapter_02.md, ...
ChapterFile(n) == [name |-> "Chapter", number |-> n]

FileNames == {[name |-> "notes", number |-> 0]}

\* The characters of a path the planner reports as project_path.
PathText(project_path) ==
    IF project_path = "output/story" THEN StoryFolder ELSE NoProject

\* dict.get(key, default)
Get(d, k, default) == IF k \in DOMAIN d THEN d[k] ELSE default

\* x in list
InList(x, s) == \E i \in 1..Len(s) : s[i] = x

\* s is the beginning of q
IsPrefix(s, q) ==
    /\ Len(s) <= Len(q)
    /\ \A i \in 1..Len(s) : s[i] = q[i]

\* list.index(x)
IndexOf(x, s) == CHOOSE i \in 1..Len(s) : s[i] = x

\* ------------------------------------------------- what the agents return
\* SettingsAgent.validate(): success is len(errors) == 0.
SettingsOutcomes ==
    { [success |-> TRUE,  config |-> "config"],
      [success |-> FALSE, config |-> "config"] }

\* PlannerAgent.plan(): completion with the project that create_project made,
\* or success=False (a model-call error, or max iterations reached).
PlannerOutcomes ==
    { [success |-> TRUE,  project_path |-> "output/story"],
      [success |-> FALSE, error |-> "planning error"] }

\* WriterAgent.write() returns only with success=True; a failing model call
\* inside it is not caught and leaves write() as an exception.
WriterOutcomes ==
    { [success |-> TRUE, word_count |-> 6000] }

\* Scores a QA review can report.
Scores == {50, 72, 80, 95}

\* QualityAssuranceAgent.review_content(): a parsed review (approved follows
\* the score unless the text carries an explicit Approved line), the
\* incomplete review (score 50, not approved), or a model-call error.
QaOutcomes ==
    { [success |-> TRUE, score |-> s, approved |-> a] :
          s \in Scores, a \in BOOLEAN }
    \cup { [success |-> FALSE, error |-> "qa error", score |-> 0] }

\* ConsistencyAgent.validate_consistency()
ConsistencyOutcomes ==
    { [success |-> TRUE, approved |-> a] : a \in BOOLEAN }
    \cup { [success |-> FALSE, error |-> "consistency error"] }

\* ------------------------------------------------------------------ state
VARIABLES
    now,           \* wall-clock second
    files,         \* sessions_dir: session id -> content of session_<id>.json
    session,       \* SessionManager.current_session
    session_file,  \* SessionManager.session_file (the id in its name), 0 = None
    io,            \* "open" while _save_session has the file open for writing
    pc,            \* where the running process is; "idle" when none runs
    results,       \* run()'s results dict
    revision_cycle,\* run()'s revision_cycle
    calls,         \* stage agents invoked in this run, in order (a QA
                   \* re-review is one more "qa")
    loaded,        \* the session as load_session read it in this run, or None
    runs,          \* processes started so far
    created,       \* create_session calls so far
    op,            \* the last SessionManager call: name and arguments
    api_calls,     \* SessionManager calls made so far by a direct caller
    \* -- one agent's tool loop (plan, review_content, revise_if_needed,
    \*    validate_consistency, fix_if_needed)
    agent,         \* the method whose loop runs, "none" when there is none
    apc,           \* where the loop is: "call_model", "tools", "done"
    messages,      \* the method's messages list
    iteration,     \* the loop's iteration
    tool_calls,    \* the tool calls of the response at hand
    tc_index,      \* how many of them the for loop has been through
    issued,        \* tool calls the model has issued in this loop
    agent_result,  \* what the method returned, or None
    exit_reason,   \* how the loop ended: "sentinel", "error", "exhausted"
    phase,         \* review_content's phase argument
    iteration_count,   \* QualityAssuranceAgent.iteration_count
    quality_threshold, \* QualityAssuranceAgent.quality_threshold
    review_text,   \* the text of the response that completed a QA review
    model_calls,   \* model calls the loop under way has made
    frames,        \* the loops that wait for a nested method to return
    \* -- one model request of the chat loop, with its retries
    max_attempts,  \* max(1, config.get("retry_attempts", 2))
    attempt,       \* the attempt under way
    request_error, \* the provider error this request meets
    sleeps,        \* the delays _sleep_backoff has slept, in order
    request_state, \* "none", "trying", "answered" or "gave_up"
    classified,    \* what the two error classifiers said of request_error
    \* -- the project tools' module globals and the project folder on disk
    active_project,\* tools/project.py _active_project_folder, <<>> = None
    disk,          \* the markdown files of the project folder: name -> file
    file_cache,    \* tools/reader.py _file_cache, keyed by file name
    clock,         \* time.time(), and the time stamp a write gives a file
    tool_call,     \* the last tool call: its arguments and what it returned
    \* -- WriterAgent.write()
    structure,     \* the units _analyze_request found, <<>> outside write()
    unit_index,    \* units the for loop has been through
    saved,         \* what the save tool returned for each of them
    write_return   \* what write() returned, or None

pipelineVars == <<now, files, session, session_file, io, pc, results,
                  revision_cycle, calls, loaded, runs, created, op, api_calls>>

agentVars == <<agent, apc, messages, iteration, tool_calls, tc_index, issued,
               agent_result, exit_reason, phase, iteration_count,
               quality_threshold, review_text, model_calls, frames>>

retryVars == <<max_attempts, attempt, request_error, sleeps, request_state,
               classified>>

\* The tools' state other than the active project folder.
fileVars == <<disk, file_cache, clock, tool_call, structure, unit_index,
              saved, write_return>>

toolVars == <<active_project, fileVars>>

vars == <<pipelineVars, agentVars, retryVars, toolVars>>

SessionIds == 1..MaxTime

\* ---------------------------------------------------------- session files
NoFile == [kind |-> "absent"]

\* A file opened with mode 'w' and not yet written to its end: any strict
\* prefix of the JSON text, which json.load rejects.
Partial == [kind |-> "partial"]

\* json.dump(current_session, f): every value of a session is a str, int,
\* bool, None, list or dict with str keys, which JSON carries unchanged.
json_dump(s) == [kind |-> "json", doc |-> s]

\* SessionManager.load_session: None when the file is missing or when
\* json.load raises.
load_session(fs, session_id) ==
    IF fs[session_id].kind = "json" THEN fs[session_id].doc ELSE None

\* ----------------------------------------------------------- SessionManager
create_session(user_prompt, t) ==
    [ session_id       |-> t,
      user_prompt      |-> user_prompt,
      status           |-> "in_progress",
      current_stage    |-> "settings",
      completed_stages |-> <<>>,
      project_path     |-> NoPath,
      results          |-> [st \in StageNames |-> None],
      qa_iterations    |-> 0,
      final_score      |-> NoScore ]

\* update_stage without the "stage not in completed_stages" test.
update_stage_always_appends(s, stage, result, success) ==
    IF s = None THEN s
    ELSE
    LET s1 == [s EXCEPT !.results[stage] = result]
        cs == Append(s1.completed_stages, stage)
        stage_index == IndexOf(stage, STAGES)
        s2 == IF success
              THEN IF stage_index < Len(STAGES)
                   THEN [s1 EXCEPT !.completed_stages = cs,
                                   !.current_stage = STAGES[stage_index + 1]]
                   ELSE [s1 EXCEPT !.completed_stages = cs,
                                   !.current_stage = "complete",
                                   !.status = "complete"]
              ELSE s1
        s3 == IF /\ stage = "planning"
                 /\ Get(result, "project_path", NoPath) # NoPath
              THEN [s2 EXCEPT !.project_path = result.project_path]
              ELSE s2
        s4 == IF stage = "qa"
              THEN LET s5 == [s3 EXCEPT !.qa_iterations = @ + 1]
                   IN IF Get(result, "score", 0) # 0
                      THEN [s5 EXCEPT !.final_score = result.score]
                      ELSE s5
              ELSE s3
    IN s4

update_stage(s, stage, result, success) ==
    IF s = None THEN s
    ELSE
    LET s1 == [s EXCEPT !.results[stage] = result]
        cs == IF InList(stage, s1.completed_stages)
              THEN s1.completed_stages
              ELSE Append(s1.completed_stages, stage)
        stage_index == IndexOf(stage, STAGES)
        s2 == IF success
              THEN IF stage_index < Len(STAGES)
                   THEN [s1 EXCEPT !.completed_stages = cs,
                                   !.current_stage = STAGES[stage_index + 1]]
                   ELSE [s1 EXCEPT !.completed_stages = cs,
                                   !.current_stage = "complete",
                                   !.status = "complete"]
              ELSE s1
        s3 == IF /\ stage = "planning"
                 /\ Get(result, "project_path", NoPath) # NoPath
              THEN [s2 EXCEPT !.project_path = result.project_path]
              ELSE s2
        s4 == IF stage = "qa"
              THEN LET s5 == [s3 EXCEPT !.qa_iterations = @ + 1]
                   IN IF Get(result, "score", 0) # 0
                      THEN [s5 EXCEPT !.final_score = result.score]
                      ELSE s5
              ELSE s3
    IN s4

\* mark_failed that records the stage and the error and leaves the status.
mark_failed_keeps_status(s, stage, error) ==
    IF s = None THEN s
    ELSE ("error" :> error) @@ [s EXCEPT !.current_stage = stage]

mark_failed(s, stage, error) ==
    IF s = None THEN s
    ELSE ("error" :> error) @@
         [s EXCEPT !.status = "failed", !.current_stage = stage]

mark_complete(s, final_score) ==
    IF s = None THEN s
    ELSE LET s1 == [s EXCEPT !.status = "complete", !.current_stage = "complete"]
         IN IF final_score # NoScore
            THEN [s1 EXCEPT !.final_score = final_score]
            ELSE s1

\* should_skip_stage that answers False for every stage.
should_skip_stage_never(s, stage) == FALSE

should_skip_stage(s, stage) ==
    IF s = None THEN FALSE ELSE InList(stage, s.completed_stages)

get_stage_result(s, stage) ==
    IF s = None THEN None ELSE s.results[stage]

\* ------------------------------------------------------------ orchestrator
\* run(): the results dict as first built.
InitResults(session_id) ==
    [ user_prompt |-> UserPrompt,
      settings    |-> None,
      planning    |-> None,
      writing     |-> None,
      qa          |-> None,
      consistency |-> None,
      success     |-> FALSE,
      session_id  |-> session_id ]

NoOp == [name |-> "none"]

\* The record kept of an update_stage call: its arguments, and whether the
\* stage was already among the completed stages when it was made.
UpdateStageOp(s, stage, result, success) ==
    [ name |-> "update_stage", stage |-> stage, result |-> result,
      success |-> success, repeated |-> should_skip_stage(s, stage) ]

\* run(): max_revision_cycles, and the score that ends the revision loop.
max_revision_cycles == 3
QaTargetScore == 90

\* A run() that goes on to the next step whatever the stage reported.
AfterMandatoryStage_goes_on(stage, success) ==
    CASE stage = "settings" -> "init_client"
      [] stage = "planning" -> "writing"
      [] stage = "writing"  -> "qa"

\* run(): where a mandatory stage (settings, planning, writing) goes after
\* update_stage: on to the next step, or to mark_failed and return.
AfterMandatoryStage(stage, success) ==
    IF ~success
    THEN CASE stage = "settings" -> "settings_failed"
           [] stage = "planning" -> "planning_failed"
           [] stage = "writing"  -> "writing_failed"
    ELSE CASE stage = "settings" -> "init_client"
           [] stage = "planning" -> "writing"
           [] stage = "writing"  -> "qa"

\* run(): the condition of the auto-revision while loop.
RevisionLoopCondition(qa_result, cycle) ==
    /\ ~Get(qa_result, "approved", FALSE)
    /\ Get(qa_result, "success", FALSE)
    /\ cycle < max_revision_cycles

\* A revision loop that breaks only when the target score is met.
AfterReReview_keeps_going(new_score, current_score, qa_result, cycle) ==
    IF new_score >= QaTargetScore THEN "qa_save"
    ELSE IF RevisionLoopCondition(qa_result, cycle) THEN "qa_loop"
    ELSE "qa_save"

\* run(): what follows a re-review inside the revision loop: break when the
\* target score is met, break when the score did not improve, and otherwise
\* the while condition again.
AfterReReview(new_score, current_score, qa_result, cycle) ==
    IF new_score >= QaTargetScore THEN "qa_save"
    ELSE IF new_score <= current_score THEN "qa_save"
    ELSE IF RevisionLoopCondition(qa_result, cycle) THEN "qa_loop"
    ELSE "qa_save"

\* run(): results["success"] and results["partial_success"].
PipelineSuccess(writing_result, qa_result, consistency_result) ==
    /\ writing_result.success
    /\ Get(qa_result, "approved", FALSE)
    /\ Get(consistency_result, "approved", FALSE)

\* A partial success that looks at the qa gate only.
PipelinePartialSuccess_qa_only(writing_result, qa_result, consistency_result) ==
    /\ writing_result.success
    /\ ~Get(qa_result, "approved", FALSE)

PipelinePartialSuccess(writing_result, qa_result, consistency_result) ==
    /\ writing_result.success
    /\ ~PipelineSuccess(writing_result, qa_result, consistency_result)

\* A run() that marks every outcome short of full success as failed.
FinalMark_partial_fails(s, success, partial_success, qa_result) ==
    IF success THEN mark_complete(s, Get(qa_result, "score", NoScore))
    ELSE mark_failed(s, "pipeline", "Content generation incomplete")

\* run(): the session call that ends the pipeline.
FinalMark(s, success, partial_success, qa_result) ==
    IF success THEN mark_complete(s, Get(qa_result, "score", NoScore))
    ELSE IF partial_success THEN mark_complete(s, Get(qa_result, "score", 0))
    ELSE mark_failed(s, "pipeline", "Content generation incomplete")

\* _active_project_folder after plan(): a plan that reports a project_path
\* took it from create_project, which made that folder the active project; a
\* plan that failed may or may not have called create_project before.
PlannerActiveProject(planning_result, before) ==
    IF planning_result.success
    THEN {PathText(planning_result.project_path)}
    ELSE {before, StoryFolder}

Running == pc \notin {"idle", "returned", "raised", "rejected"}

\* _save_session, first half: open(session_file, 'w') truncates the file.
OpenForWrite(id) ==
    /\ files' = [files EXCEPT ![id] = Partial]
    /\ io' = "open"

\* The session manager and run() before anything is called.
PipelineInit ==
    /\ now = 1
    /\ files = [id \in SessionIds |-> NoFile]
    /\ session = None
    /\ session_file = 0
    /\ io = "closed"
    /\ pc = "idle"
    /\ results = None
    /\ revision_cycle = 0
    /\ calls = <<>>
    /\ loaded = None
    /\ runs = 0
    /\ created = 0
    /\ op = NoOp
    /\ api_calls = 0

\* No agent loop is under way.
NoAgent ==
    /\ agent = "none"
    /\ apc = "done"
    /\ messages = <<>>
    /\ iteration = 0
    /\ tool_calls = <<>>
    /\ tc_index = 0
    /\ issued = 0
    /\ agent_result = None
    /\ exit_reason = "none"
    /\ phase = "final"
    /\ iteration_count = 0
    /\ quality_threshold = QaTargetScore
    /\ review_text = None
    /\ model_calls = 0
    /\ frames = <<>>

\* No project is active and the tools have done nothing.
NoTools ==
    /\ active_project = NoProject
    /\ disk = [f \in FileNames |-> NoFile]
    /\ file_cache = [f \in FileNames |-> None]
    /\ clock = 0
    /\ tool_call = NoOp
    /\ structure = <<>>
    /\ unit_index = 0
    /\ saved = <<>>
    /\ write_return = None

\* No model request of the chat loop is under way.
NoRequest ==
    /\ max_attempts = 1
    /\ attempt = 0
    /\ request_error = None
    /\ sleeps = <<>>
    /\ request_state = "none"
    /\ classified = None

Init ==
    /\ PipelineInit
    /\ NoAgent
    /\ NoRequest
    /\ NoTools

\* _save_session, second half: json.dump writes the session and the file is
\* closed.
SaveFinish ==
    /\ io = "open"
    /\ files' = [files EXCEPT ![session_file] = json_dump(session)]
    /\ io' = "closed"
    /\ UNCHANGED <<now, session, session_file, pc, results, revision_cycle,
                   calls, loaded, runs, created, op, api_calls>>
    /\ UNCHANGED <<agentVars, retryVars, toolVars>>

\* _save_session: the write raises (disk full, I/O error); the exception is
\* logged and swallowed, the file stays as far as it was written.
SaveFails ==
    /\ io = "open"
    /\ pc # "idle"
    /\ io' = "closed"
    /\ UNCHANGED <<now, files, session, session_file, pc, results,
                   revision_cycle, calls, loaded, runs, created, op, api_calls>>
    /\ UNCHANGED <<agentVars, retryVars, toolVars>>

\* The first lines of run(): create_session, or load_session and, when that
\* returns None, create_session.
StartWithNewSession(t) ==
    /\ created < MaxSessions
    /\ session' = create_session(UserPrompt, t)
    /\ session_file' = t
    /\ OpenForWrite(t)
    /\ created' = created + 1
    /\ results' = InitResults(t)
    /\ op' = [name |-> "create_session"]

\* run(user_prompt) without a resume id.
RunFresh ==
    /\ pc = "idle" /\ runs < MaxRuns
    /\ \E t \in now..MaxTime :
        /\ now' = t
        /\ StartWithNewSession(t)
    /\ loaded' = None
    /\ pc' = "settings"
    /\ runs' = runs + 1
    /\ revision_cycle' = 0
    /\ calls' = <<>>
    /\ UNCHANGED api_calls
    /\ UNCHANGED <<agentVars, retryVars, toolVars>>

\* run(user_prompt, resume_session_id).
RunResume ==
    /\ pc = "idle" /\ runs < MaxRuns
    /\ \E t \in now..MaxTime, id \in SessionIds :
        /\ now' = t
        /\ LET s == load_session(files, id) IN
           IF s # None
           THEN /\ session' = s
                /\ session_file' = id
                /\ loaded' = s
                /\ results' = InitResults(s.session_id)
                /\ op' = [name |-> "load_session"]
                /\ UNCHANGED <<files, io, created>>
           ELSE /\ StartWithNewSession(t)
                /\ loaded' = None
    /\ pc' = "settings"
    /\ runs' = runs + 1
    /\ revision_cycle' = 0
    /\ calls' = <<>>
    /\ UNCHANGED api_calls
    /\ UNCHANGED <<agentVars, retryVars, toolVars>>

\* resume_session(session_id): refuses a missing and a complete session, and
\* otherwise calls run(user_prompt, session_id), which loads the file again.
ResumeSession ==
    /\ pc = "idle" /\ runs < MaxRuns
    /\ \E t \in now..MaxTime, id \in SessionIds :
        /\ now' = t
        /\ LET s == load_session(files, id) IN
           IF s = None
           THEN /\ results' = [success |-> FALSE, error |-> "not found"]
                /\ pc' = "rejected"
                /\ UNCHANGED <<session, session_file, loaded>>
           ELSE IF s.status = "complete"
           THEN /\ results' = [success |-> FALSE, error |-> "already complete"]
                /\ pc' = "rejected"
                /\ session' = s
                /\ session_file' = id
                /\ loaded' = s
           ELSE /\ session' = load_session(files, id)
                /\ session_file' = id
                /\ loaded' = s
                /\ results' = InitResults(s.session_id)
                /\ pc' = "settings"
    /\ op' = [name |-> "load_session"]
    /\ runs' = runs + 1
    /\ revision_cycle' = 0
    /\ calls' = <<>>
    /\ UNCHANGED <<files, io, created, api_calls>>
    /\ UNCHANGED <<agentVars, retryVars, toolVars>>

\* AGENT 1: settings validation.
Settings ==
    /\ pc = "settings" /\ io = "closed"
    /\ IF should_skip_stage(session, "settings")
       THEN /\ results' = [results EXCEPT
                              !.settings = get_stage_result(session, "settings")]
            /\ pc' = "init_client"
            /\ UNCHANGED <<files, session, io, calls, op>>
       ELSE \E r \in SettingsOutcomes :
            /\ calls' = Append(calls, "settings")
            /\ results' = [results EXCEPT !.settings = r]
            /\ session' = update_stage(session, "settings", r, r.success)
            /\ op' = UpdateStageOp(session, "settings", r, r.success)
            /\ OpenForWrite(session_file)
            /\ pc' = AfterMandatoryStage("settings", r.success)
    /\ UNCHANGED <<now, session_file, revision_cycle, loaded, runs, created,
                   api_calls>>
    /\ UNCHANGED <<agentVars, retryVars, toolVars>>

\* The return after a failed mandatory stage: mark_failed, return results.
AbortPipeline ==
    /\ pc \in {"settings_failed", "planning_failed", "writing_failed"}
    /\ io = "closed"
    /\ LET stage == CASE pc = "settings_failed" -> "settings"
                      [] pc = "planning_failed" -> "planning"
                      [] pc = "writing_failed"  -> "writing"
       IN /\ session' = mark_failed(session, stage, "stage failed")
          /\ op' = [name |-> "mark_failed", stage |-> stage]
    /\ OpenForWrite(session_file)
    /\ pc' = "returned"
    /\ UNCHANGED <<now, session_file, results, revision_cycle, calls, loaded,
                   runs, created, api_calls>>
    /\ UNCHANGED <<agentVars, retryVars, toolVars>>

\* _initialize_client and _initialize_tools. Both re-raise what they catch,
\* and neither calls the model or a tool: the client is built from the config
\* of the settings stage, which always carries an api_key.
InitializeClient ==
    /\ pc = "init_client" /\ io = "closed"
    /\ pc' = "planning"
    /\ UNCHANGED <<now, files, session, session_file, io, results,
                   revision_cycle, calls, loaded, runs, created, op, api_calls>>
    /\ UNCHANGED <<agentVars, retryVars, toolVars>>

\* AGENT 2: story planning.
Planning ==
    /\ pc = "planning" /\ io = "closed"
    /\ IF should_skip_stage(session, "planning")
       THEN /\ results' = [results EXCEPT
                              !.planning = get_stage_result(session, "planning")]
            /\ pc' = "writing"
            /\ UNCHANGED <<files, session, io, calls, op, active_project>>
       ELSE \E r \in PlannerOutcomes :
            /\ calls' = Append(calls, "planning")
            /\ results' = [results EXCEPT !.planning = r]
            /\ session' = update_stage(session, "planning", r, r.success)
            /\ op' = UpdateStageOp(session, "planning", r, r.success)
            /\ OpenForWrite(session_file)
            /\ pc' = AfterMandatoryStage("planning", r.success)
            /\ active_project' \in PlannerActiveProject(r, active_project)
    /\ UNCHANGED <<now, session_file, revision_cycle, loaded, runs, created,
                   api_calls>>
    /\ UNCHANGED <<agentVars, retryVars, fileVars>>

\* AGENT 3: story writing. write() has no handler around its model calls, so
\* a failing call leaves run() as an exception.
Writing ==
    /\ pc = "writing" /\ io = "closed"
    /\ IF should_skip_stage(session, "writing")
       THEN /\ results' = [results EXCEPT
                              !.writing = get_stage_result(session, "writing")]
            /\ pc' = "qa"
            /\ UNCHANGED <<files, session, io, calls, op>>
       ELSE \/ \E r \in WriterOutcomes :
               /\ calls' = Append(calls, "writing")
               /\ results' = [results EXCEPT !.writing = r]
               /\ session' = update_stage(session, "writing", r, r.success)
               /\ op' = UpdateStageOp(session, "writing", r, r.success)
               /\ OpenForWrite(session_file)
               /\ pc' = AfterMandatoryStage("writing", r.success)
            \/ /\ calls' = Append(calls, "writing")
               /\ pc' = "raised"
               /\ UNCHANGED <<files, session, io, results, op>>
    /\ UNCHANGED <<now, session_file, revision_cycle, loaded, runs, created,
                   api_calls>>
    /\ UNCHANGED <<agentVars, retryVars, toolVars>>

\* AGENT 4: quality assurance, first review.
QaReview ==
    /\ pc = "qa" /\ io = "closed"
    /\ IF should_skip_stage(session, "qa")
       THEN /\ results' = [results EXCEPT !.qa = get_stage_result(session, "qa")]
            /\ pc' = "consistency"
            /\ UNCHANGED <<calls, revision_cycle>>
       ELSE \E r \in QaOutcomes :
            /\ calls' = Append(calls, "qa")
            /\ results' = [results EXCEPT !.qa = r]
            /\ revision_cycle' = 0
            /\ pc' = IF RevisionLoopCondition(r, 0) THEN "qa_loop" ELSE "qa_save"
    /\ UNCHANGED <<now, files, session, session_file, io, loaded, runs,
                   created, op, api_calls>>
    /\ UNCHANGED <<agentVars, retryVars, toolVars>>

\* One pass of the auto-revision loop: revise_if_needed, and a re-review
\* when the revision reports revised.
QaRevisionCycle ==
    /\ pc = "qa_loop" /\ io = "closed"
    /\ revision_cycle' = revision_cycle + 1
    /\ LET current_score == Get(results.qa, "score", 0) IN
       \E revised \in BOOLEAN :
          IF revised
          THEN \E r \in QaOutcomes :
               LET new_score == Get(r, "score", 0) IN
               /\ calls' = Append(calls, "qa")
               /\ results' = [results EXCEPT !.qa = r]
               /\ pc' = AfterReReview(new_score, current_score, r,
                                      revision_cycle + 1)
          ELSE /\ pc' = "qa_save"
               /\ UNCHANGED <<results, calls>>
    /\ UNCHANGED <<now, files, session, session_file, io, loaded, runs,
                   created, op, api_calls>>
    /\ UNCHANGED <<agentVars, retryVars, toolVars>>

\* The update_stage("qa", ...) that follows the loop.
QaSave ==
    /\ pc = "qa_save" /\ io = "closed"
    /\ LET success == Get(results.qa, "success", FALSE) IN
       /\ session' = update_stage(session, "qa", results.qa, success)
       /\ op' = UpdateStageOp(session, "qa", results.qa, success)
    /\ OpenForWrite(session_file)
    /\ pc' = "consistency"
    /\ UNCHANGED <<now, session_file, results, revision_cycle, calls, loaded,
                   runs, created, api_calls>>
    /\ UNCHANGED <<agentVars, retryVars, toolVars>>

\* AGENT 5: consistency validation, the auto-fix and the re-validation.
Consistency ==
    /\ pc = "consistency" /\ io = "closed"
    /\ IF should_skip_stage(session, "consistency")
       THEN /\ results' = [results EXCEPT
                              !.consistency = get_stage_result(session, "consistency")]
            /\ UNCHANGED <<files, session, io, calls, op>>
       ELSE \E r \in ConsistencyOutcomes, fixed \in BOOLEAN,
               r2 \in ConsistencyOutcomes :
            LET needs_fix == /\ ~Get(r, "approved", FALSE)
                             /\ Get(r, "success", FALSE)
                consistency_result == IF needs_fix /\ fixed THEN r2 ELSE r
                success == Get(consistency_result, "success", FALSE)
            IN /\ calls' = Append(calls, "consistency")
               /\ results' = [results EXCEPT !.consistency = consistency_result]
               /\ session' = update_stage(session, "consistency",
                                          consistency_result, success)
               /\ op' = UpdateStageOp(session, "consistency",
                                       consistency_result, success)
               /\ OpenForWrite(session_file)
    /\ pc' = "classify"
    /\ UNCHANGED <<now, session_file, revision_cycle, loaded, runs, created,
                   api_calls>>
    /\ UNCHANGED <<agentVars, retryVars, toolVars>>

\* "Pipeline Complete": the success level, mark_complete or mark_failed, and
\* the return.
Classify ==
    /\ pc = "classify" /\ io = "closed"
    /\ LET success == PipelineSuccess(results.writing, results.qa,
                                      results.consistency)
           partial == PipelinePartialSuccess(results.writing, results.qa,
                                             results.consistency)
       IN /\ results' = ("partial_success" :> partial) @@
                        [results EXCEPT !.success = success]
          /\ session' = FinalMark(session, success, partial, results.qa)
          /\ op' = [name |-> IF success \/ partial THEN "mark_complete"
                             ELSE "mark_failed"]
    /\ OpenForWrite(session_file)
    /\ pc' = "returned"
    /\ UNCHANGED <<now, session_file, revision_cycle, calls, loaded, runs,
                   created, api_calls>>
    /\ UNCHANGED <<agentVars, retryVars, toolVars>>

\* The memory of a process that is gone, module globals included.
ProcessGone ==
    /\ pc' = "idle"
    /\ session' = None
    /\ session_file' = 0
    /\ io' = "closed"
    /\ results' = None
    /\ revision_cycle' = 0
    /\ calls' = <<>>
    /\ loaded' = None
    /\ op' = NoOp
    /\ active_project' = NoProject
    /\ UNCHANGED <<now, files, runs, created, api_calls>>
    /\ UNCHANGED <<agentVars, retryVars, fileVars>>

\* The process dies (crash, kill, power loss) anywhere in run(), a save that
\* is under way included.
Crash ==
    /\ Running
    /\ ProcessGone

\* The process ends after run() or resume_session() returned or raised.
Exit ==
    /\ pc \in {"returned", "raised", "rejected"}
    /\ io = "closed"
    /\ ProcessGone

Next ==
    \/ RunFresh
    \/ RunResume
    \/ ResumeSession
    \/ Settings
    \/ AbortPipeline
    \/ InitializeClient
    \/ Planning
    \/ Writing
    \/ QaReview
    \/ QaRevisionCycle
    \/ QaSave
    \/ Consistency
    \/ Classify
    \/ SaveFinish
    \/ SaveFails
    \/ Crash
    \/ Exit

Spec == Init /\ [][Next]_vars

\* ------------------------------------------- SessionManager, called directly
\* A caller that holds one SessionManager and calls its methods in any order
\* with any arguments.
StageOutcomes(stage) ==
    CASE stage = "settings"    -> SettingsOutcomes
      [] stage = "planning"    -> PlannerOutcomes
      [] stage = "writing"     -> WriterOutcomes
      [] stage = "qa"          -> QaOutcomes
      [] stage = "consistency" -> ConsistencyOutcomes

ApiCall ==
    /\ pc = "idle" /\ io = "closed"
    /\ api_calls < MaxApiCalls
    /\ api_calls' = api_calls + 1
    /\ UNCHANGED <<pc, results, revision_cycle, calls, loaded, runs>>
    /\ UNCHANGED <<agentVars, retryVars, toolVars>>

\* The save that ends update_stage, mark_failed and mark_complete; they
\* return before it when there is no current session.
SaveIfSession ==
    IF session = None
    THEN UNCHANGED <<files, io>>
    ELSE OpenForWrite(session_file)

SM_CreateSession ==
    /\ ApiCall
    /\ created < MaxDirectCreates
    /\ \E t \in now..MaxTime :
        /\ now' = t
        /\ session' = create_session(UserPrompt, t)
        /\ session_file' = t
        /\ OpenForWrite(t)
    /\ created' = created + 1
    /\ op' = [name |-> "create_session"]

SM_LoadSession ==
    /\ ApiCall
    /\ \E id \in SessionIds :
        LET s == load_session(files, id) IN
        IF s # None
        THEN session' = s /\ session_file' = id
        ELSE UNCHANGED <<session, session_file>>
    /\ op' = [name |-> "load_session"]
    /\ UNCHANGED <<now, files, io, created>>

SM_UpdateStage ==
    /\ ApiCall
    /\ \E stage \in StageNames, success \in BOOLEAN :
       \E result \in StageOutcomes(stage) :
        /\ session' = update_stage(session, stage, result, success)
        /\ op' = UpdateStageOp(session, stage, result, success)
    /\ SaveIfSession
    /\ UNCHANGED <<now, session_file, created>>

SM_MarkFailed ==
    /\ ApiCall
    /\ \E stage \in StageNames \cup {"pipeline"} :
        /\ session' = mark_failed(session, stage, "stage failed")
        /\ op' = [name |-> "mark_failed", stage |-> stage]
    /\ SaveIfSession
    /\ UNCHANGED <<now, session_file, created>>

SM_MarkComplete ==
    /\ ApiCall
    /\ \E final_score \in {NoScore} \cup Scores :
        /\ session' = mark_complete(session, final_score)
        /\ op' = [name |-> "mark_complete"]
    /\ SaveIfSession
    /\ UNCHANGED <<now, session_file, created>>

NextSM ==
    \/ SM_CreateSession
    \/ SM_LoadSession
    \/ SM_UpdateStage
    \/ SM_MarkFailed
    \/ SM_MarkComplete
    \/ SaveFinish

SpecSM == Init /\ [][NextSM]_vars

\* ------------------------------------------------------------ agent loops
\* Tool calls the model issues in one loop, over all its responses.
MaxToolCalls == 2
\* review_content calls made on the QA agent before the one modelled.
MaxPriorReviews == 1
\* Verifications of fix_if_needed that find errors remaining.
MaxFailedVerifications == 1

Agents == {"plan", "review_content", "revise_if_needed",
           "validate_consistency", "fix_if_needed"}

\* max_iterations of plan, review_content, revise_if_needed,
\* validate_consistency and fix_if_needed.
PlanMaxIterations == 10
ReviewMaxIterations == 5
ReviseMaxIterations == 3
ValidateMaxIterations == 8
FixMaxIterations == 10

max_iterations(a) ==
    CASE a = "plan"                 -> PlanMaxIterations
      [] a = "review_content"       -> ReviewMaxIterations
      [] a = "revise_if_needed"     -> ReviseMaxIterations
      [] a = "validate_consistency" -> ValidateMaxIterations
      [] a = "fix_if_needed"        -> FixMaxIterations

\* What becomes of a tool call: the tool returns, the tool raises, the
\* arguments are not JSON, or the name is not in tool_map.
ToolCallKinds == {"ok", "raises", "bad_json", "unknown_tool"}

\* The tool calls of one response: ids first..first+k-1, any kinds.
ToolCallLists(first, most) ==
    UNION { { [i \in 1..k |-> [id |-> first + i - 1, kind |-> kinds[i]]] :
                kinds \in [1..k -> ToolCallKinds] } : k \in 0..most }

\* messages = [system prompt, user request]
FirstMessages == << [role |-> "system"], [role |-> "user"] >>

\* A list that takes a new message at its head.
AppendMessage_prepends(msgs, m) == <<m>> \o msgs

\* messages.append(...)
AppendMessage(msgs, m) == Append(msgs, m)

AssistantMessage(tcs) ==
    [role |-> "assistant", tool_calls |-> [i \in 1..Len(tcs) |-> tcs[i].id]]

ToolResult(tc, content) ==
    [role |-> "tool", tool_call_id |-> tc.id, content |-> content]

\* The handler of a raising tool: plan, review_content and
\* validate_consistency append an "ERROR: ..." result, revise_if_needed and
\* fix_if_needed only log.
ToolRaised(a, msgs, tc) ==
    IF a \in {"plan", "review_content", "validate_consistency"}
    THEN AppendMessage(msgs, ToolResult(tc, "ERROR"))
    ELSE msgs

\* One pass of "for tc in tool_calls".
ExecuteToolCall(a, msgs, tc) ==
    CASE tc.kind = "bad_json"     -> msgs
      [] tc.kind = "unknown_tool" -> msgs
      [] tc.kind = "ok"           -> AppendMessage(msgs, ToolResult(tc, "result"))
      [] tc.kind = "raises"       -> ToolRaised(a, msgs, tc)

\* QualityAssuranceAgent._get_context_aware_threshold
Phases == {"draft", "revision", "final", "other"}

Min(x, y) == IF x <= y THEN x ELSE y

_get_context_aware_threshold(ph, iter) ==
    LET base == CASE ph = "draft"    -> 70
                  [] ph = "revision" -> 80
                  [] ph = "final"    -> 90
                  [] OTHER           -> 80
    IN Min(base + iter * 5, 90)

\* The text of a completed review, as _parse_qa_result reads it: the number
\* after "Score:" (NoScore when there is none) and the "Approved:" line.
ReviewTexts ==
    [score : Scores \cup {NoScore}, approved_line : {"yes", "no", "none"}]

\* A parse that approves only scores above the threshold.
_parse_qa_result_above_only(content, threshold) ==
    LET score == IF content.score = NoScore THEN 0 ELSE content.score
    IN [ score    |-> score,
         approved |-> IF content.approved_line # "none"
                      THEN content.approved_line = "yes"
                      ELSE score > threshold ]

_parse_qa_result(content, threshold) ==
    LET score == IF content.score = NoScore THEN 0 ELSE content.score
    IN [ score    |-> score,
         approved |-> IF content.approved_line # "none"
                      THEN content.approved_line = "yes"
                      ELSE score >= threshold ]

\* The return of a loop whose response carried the completion sentinel
\* (fix_if_needed verifies first and is handled in AgentSentinel).
SentinelResults(a, threshold, text) ==
    CASE a = "plan" ->
           { [success |-> TRUE, project_path |-> "output/story"] }
      [] a = "review_content" ->
           { [success |-> TRUE] @@ _parse_qa_result(text, threshold) }
      [] a = "revise_if_needed" ->
           { [revised |-> TRUE] }
      [] a = "validate_consistency" ->
           { [success |-> TRUE, approved |-> b] : b \in BOOLEAN }

\* The return of the "except Exception" around the model call.
ErrorResult(a) ==
    CASE a = "plan"                 -> [success |-> FALSE, error |-> "error"]
      [] a = "review_content"       -> [success |-> FALSE, error |-> "error",
                                        score |-> 0]
      [] a = "revise_if_needed"     -> [revised |-> FALSE, error |-> "error"]
      [] a = "validate_consistency" -> [success |-> FALSE, error |-> "error"]
      [] a = "fix_if_needed"        -> [fixed |-> FALSE, error |-> "error"]

\* The return after the for loop ran out of iterations.
ExhaustedResult(a) ==
    CASE a = "plan" ->
           [success |-> FALSE, error |-> "Max planning iterations reached"]
      [] a = "review_content" ->
           [success |-> TRUE, score |-> 50, approved |-> FALSE]
      [] a = "revise_if_needed" ->
           [revised |-> FALSE, reason |-> "Max iterations reached"]
      [] a = "validate_consistency" ->
           [success |-> TRUE, approved |-> FALSE]
      [] a = "fix_if_needed" ->
           [fixed |-> FALSE, reason |-> "Max iterations reached"]

\* The "Verification failed" requests fix_if_needed has appended.
FailedVerifications(msgs) ==
    Cardinality({i \in 3..Len(msgs) : msgs[i].role = "user"})

\* A method is called: plan, validate_consistency, revise_if_needed or
\* fix_if_needed (the last two with a review that is not approved), or
\* review_content, which counts the review and sets the threshold first.
InitAgent ==
    /\ PipelineInit
    /\ NoRequest
    /\ NoTools
    /\ agent \in Agents
    /\ apc = "call_model"
    /\ messages = FirstMessages
    /\ iteration = 1
    /\ tool_calls = <<>>
    /\ tc_index = 0
    /\ issued = 0
    /\ agent_result = None
    /\ exit_reason = "none"
    /\ review_text = None
    /\ model_calls = 0
    /\ frames = <<>>
    /\ IF agent = "review_content"
       THEN /\ phase \in Phases
            /\ iteration_count \in 1..(MaxPriorReviews + 1)
            /\ quality_threshold =
                   _get_context_aware_threshold(phase, iteration_count)
       ELSE /\ phase = "final"
            /\ iteration_count = 0
            /\ quality_threshold = QaTargetScore

\* A loop body whose end always leads to one more iteration.
EndIteration_never_exhausts ==
    /\ iteration' = iteration + 1
    /\ apc' = "call_model"
    /\ UNCHANGED <<agent_result, exit_reason>>

\* The end of the body of "for iteration in range(1, max_iterations + 1)":
\* the next iteration, or the return that follows the loop.
EndIteration ==
    IF iteration < max_iterations(agent)
    THEN /\ iteration' = iteration + 1
         /\ apc' = "call_model"
         /\ UNCHANGED <<agent_result, exit_reason>>
    ELSE /\ apc' = "done"
         /\ agent_result' = ExhaustedResult(agent)
         /\ exit_reason' = "exhausted"
         /\ UNCHANGED iteration

\* client.chat.completions.create raises, with an error is_transient_error
\* calls transient (503) or one it does not (401): the outer except returns.
\* The call was the only attempt, and nothing slept.
AgentModelError ==
    /\ agent # "none" /\ apc = "call_model"
    /\ apc' = "done"
    /\ agent_result' = ErrorResult(agent)
    /\ exit_reason' = "error"
    /\ request_error' \in [status : {401, 503}, message : {{}}]
    /\ attempt' = 1
    /\ UNCHANGED <<agent, messages, iteration, tool_calls, tc_index, issued,
                   phase, iteration_count, quality_threshold, review_text,
                   model_calls, frames>>
    /\ UNCHANGED <<pipelineVars, max_attempts, sleeps, request_state,
                   classified, toolVars>>

\* The response carries the completion sentinel. plan appends the critique
\* prompt before it returns; fix_if_needed validates again, returns when the
\* verification is approved, asks for more fixes when it is not, and lands
\* in its except when the verification has no "approved" key.
AgentSentinel ==
    /\ agent # "none" /\ apc = "call_model"
    /\ IF agent = "fix_if_needed"
       THEN \E verify_result \in ConsistencyOutcomes :
            IF "approved" \notin DOMAIN verify_result
            THEN /\ apc' = "done"
                 /\ agent_result' = ErrorResult(agent)
                 /\ exit_reason' = "error"
                 /\ UNCHANGED <<messages, iteration>>
            ELSE IF verify_result.approved
            THEN /\ apc' = "done"
                 /\ agent_result' = [fixed |-> TRUE]
                 /\ exit_reason' = "sentinel"
                 /\ UNCHANGED <<messages, iteration>>
            ELSE /\ FailedVerifications(messages) < MaxFailedVerifications
                 /\ messages' = AppendMessage(messages, [role |-> "user"])
                 /\ EndIteration
       ELSE /\ messages' = IF agent = "plan"
                           THEN AppendMessage(messages, [role |-> "user"])
                           ELSE messages
            /\ apc' = "done"
            /\ exit_reason' = "sentinel"
            /\ UNCHANGED iteration
            /\ \E text \in ReviewTexts :
                 /\ agent_result' \in
                        SentinelResults(agent, quality_threshold, text)
                 /\ review_text' = IF agent = "review_content"
                                   THEN text ELSE None
    /\ agent # "review_content" => UNCHANGED review_text
    /\ UNCHANGED <<agent, tool_calls, tc_index, issued, phase,
                   iteration_count, quality_threshold, model_calls, frames>>
    /\ UNCHANGED <<pipelineVars, retryVars, toolVars>>

\* A response without the sentinel: the assistant message is appended, and
\* the tool calls of the response, if any, are gone through next.
AgentResponse ==
    /\ agent # "none" /\ apc = "call_model"
    /\ \E tcs \in ToolCallLists(issued + 1, MaxToolCalls - issued) :
        /\ messages' = AppendMessage(messages, AssistantMessage(tcs))
        /\ issued' = issued + Len(tcs)
        /\ tool_calls' = tcs
        /\ tc_index' = 0
        /\ IF Len(tcs) = 0
           THEN EndIteration
           ELSE /\ apc' = "tools"
                /\ UNCHANGED <<iteration, agent_result, exit_reason>>
    /\ UNCHANGED <<agent, phase, iteration_count, quality_threshold,
                   review_text, model_calls, frames>>
    /\ UNCHANGED <<pipelineVars, retryVars, toolVars>>

\* One pass of "for tc in tool_calls".
AgentToolCall ==
    /\ agent # "none" /\ apc = "tools"
    /\ tc_index < Len(tool_calls)
    /\ messages' = ExecuteToolCall(agent, messages, tool_calls[tc_index + 1])
    /\ tc_index' = tc_index + 1
    /\ IF tc_index + 1 = Len(tool_calls)
       THEN EndIteration
       ELSE UNCHANGED <<apc, iteration, agent_result, exit_reason>>
    /\ UNCHANGED <<agent, tool_calls, issued, phase, iteration_count,
                   quality_threshold, review_text, model_calls, frames>>
    /\ UNCHANGED <<pipelineVars, retryVars, toolVars>>

NextAgent ==
    \/ AgentModelError
    \/ AgentSentinel
    \/ AgentResponse
    \/ AgentToolCall

SpecAgent == InitAgent /\ [][NextAgent]_vars

\* ------------------------- run() from the first QA review to its final block
\* The agent loops as run() calls them one after the other, each iteration
\* one model call; the tool calls of a response are gone through inside the
\* iteration and change nothing of what is counted here.

\* The agent-loop and pipeline state this part leaves alone.
loopUnused == <<messages, tool_calls, tc_index, issued, review_text, phase,
                now, files, session, session_file, io, loaded, runs,
                created, op, api_calls>>

\* A method's loop starts; review_content counts the review and sets the
\* threshold first.
StartLoop(a) ==
    /\ agent' = a
    /\ apc' = "call_model"
    /\ iteration' = 1
    /\ agent_result' = None
    /\ exit_reason' = "none"
    /\ model_calls' = 0
    /\ IF a = "review_content"
       THEN /\ iteration_count' = iteration_count + 1
            /\ quality_threshold' =
                   _get_context_aware_threshold(phase, iteration_count + 1)
       ELSE UNCHANGED <<iteration_count, quality_threshold>>

\* run() calls a method.
CallMethod(a) ==
    /\ StartLoop(a)
    /\ calls' = Append(calls, a)

\* run() is past its last agent call.
NoMethod ==
    /\ agent' = "none"
    /\ apc' = "done"
    /\ iteration' = 0
    /\ agent_result' = None
    /\ exit_reason' = "none"
    /\ UNCHANGED <<calls, iteration_count, quality_threshold, model_calls>>

\* run() has called review_content for the first time.
InitLoops ==
    /\ now = 1
    /\ files = [id \in SessionIds |-> NoFile]
    /\ session = None
    /\ session_file = 0
    /\ io = "closed"
    /\ pc = "qa"
    /\ results = InitResults(1)
    /\ revision_cycle = 0
    /\ calls = <<"review_content">>
    /\ loaded = None
    /\ runs = 1
    /\ created = 0
    /\ op = NoOp
    /\ api_calls = 0
    /\ NoRequest
    /\ NoTools
    /\ agent = "review_content"
    /\ apc = "call_model"
    /\ messages = FirstMessages
    /\ iteration = 1
    /\ tool_calls = <<>>
    /\ tc_index = 0
    /\ issued = 0
    /\ agent_result = None
    /\ exit_reason = "none"
    /\ phase = "final"
    /\ iteration_count = 1
    /\ quality_threshold = _get_context_aware_threshold("final", 1)
    /\ review_text = None
    /\ model_calls = 0
    /\ frames = <<>>

\* One iteration of the loop under way: the model call returns or raises.
\* A raise ends the method in its except; the sentinel ends it with its
\* result, and in fix_if_needed starts the verification; any other response
\* has its tool calls executed and ends the iteration.
LoopModelCall ==
    /\ agent # "none" /\ apc = "call_model"
    /\ \E outcome \in {"raises", "sentinel", "other"} :
          CASE outcome = "raises" ->
                /\ model_calls' = model_calls + 1
                /\ apc' = "done"
                /\ agent_result' = ErrorResult(agent)
                /\ exit_reason' = "error"
                /\ UNCHANGED <<agent, iteration, calls, frames,
                               iteration_count, quality_threshold>>
            [] outcome = "sentinel" /\ agent = "fix_if_needed" ->
                /\ frames' = Append(frames,
                                     [agent |-> agent,
                                      iteration |-> iteration,
                                      model_calls |-> model_calls + 1])
                /\ StartLoop("validate_consistency")
                /\ UNCHANGED calls
            [] outcome = "sentinel" /\ agent # "fix_if_needed" ->
                /\ model_calls' = model_calls + 1
                /\ apc' = "done"
                /\ exit_reason' = "sentinel"
                /\ \E text \in ReviewTexts :
                      agent_result' \in
                          SentinelResults(agent, quality_threshold, text)
                /\ UNCHANGED <<agent, iteration, calls, frames,
                               iteration_count, quality_threshold>>
            [] outcome = "other" ->
                /\ model_calls' = model_calls + 1
                /\ EndIteration
                /\ UNCHANGED <<agent, calls, frames, iteration_count,
                               quality_threshold>>
    /\ UNCHANGED <<pc, results, revision_cycle>>
    /\ UNCHANGED <<loopUnused, retryVars, toolVars>>

\* fix_if_needed's verification returned: fixed when it is approved, one
\* more iteration (or the end of the loop) when it is not, and the except
\* when the verification has no "approved" key.
VerificationReturns ==
    /\ agent # "none" /\ apc = "done" /\ frames # <<>>
    /\ LET frame == frames[Len(frames)]
           verify_result == agent_result
       IN /\ agent' = frame.agent
          /\ model_calls' = frame.model_calls
          /\ frames' = SubSeq(frames, 1, Len(frames) - 1)
          /\ IF "approved" \notin DOMAIN verify_result
             THEN /\ apc' = "done"
                  /\ agent_result' = ErrorResult(frame.agent)
                  /\ exit_reason' = "error"
                  /\ iteration' = frame.iteration
             ELSE IF verify_result.approved
             THEN /\ apc' = "done"
                  /\ agent_result' = [fixed |-> TRUE]
                  /\ exit_reason' = "sentinel"
                  /\ iteration' = frame.iteration
             ELSE IF frame.iteration < max_iterations(frame.agent)
             THEN /\ apc' = "call_model"
                  /\ agent_result' = None
                  /\ exit_reason' = "none"
                  /\ iteration' = frame.iteration + 1
             ELSE /\ apc' = "done"
                  /\ agent_result' = ExhaustedResult(frame.agent)
                  /\ exit_reason' = "exhausted"
                  /\ iteration' = frame.iteration
    /\ UNCHANGED <<pc, results, revision_cycle, calls, iteration_count,
                   quality_threshold>>
    /\ UNCHANGED <<loopUnused, retryVars, toolVars>>

\* A method that run() called has returned.
Returned(a) == agent = a /\ apc = "done" /\ frames = <<>>

\* run(): after the revision loop, update_stage("qa") and the validation.
AfterRevisionLoop ==
    /\ pc' = "consistency"
    /\ CallMethod("validate_consistency")

\* run(): the while condition of the revision loop and what follows it, a
\* revision when it holds and the consistency stage when it does not.
RevisionLoop(qa_result, cycle) ==
    IF RevisionLoopCondition(qa_result, cycle)
    THEN /\ revision_cycle' = cycle + 1
         /\ pc' = "qa_loop"
         /\ CallMethod("revise_if_needed")
    ELSE /\ revision_cycle' = cycle
         /\ AfterRevisionLoop

\* The first review returned.
ReviewReturns ==
    /\ pc = "qa" /\ Returned("review_content")
    /\ results' = [results EXCEPT !.qa = agent_result]
    /\ RevisionLoop(agent_result, 0)
    /\ UNCHANGED frames
    /\ UNCHANGED <<loopUnused, retryVars, toolVars>>

\* revise_if_needed returned: the re-review when it revised, the break when
\* it did not.
RevisionReturns ==
    /\ pc = "qa_loop" /\ Returned("revise_if_needed")
    /\ IF Get(agent_result, "revised", FALSE)
       THEN /\ pc' = "qa_rereview"
            /\ CallMethod("review_content")
       ELSE AfterRevisionLoop
    /\ UNCHANGED <<results, revision_cycle, frames>>
    /\ UNCHANGED <<loopUnused, retryVars, toolVars>>

\* The re-review returned: the two breaks, or the while condition again.
ReReviewReturns ==
    /\ pc = "qa_rereview" /\ Returned("review_content")
    /\ LET qa_result == agent_result
           current_score == Get(results.qa, "score", 0)
           new_score == Get(qa_result, "score", 0)
       IN /\ results' = [results EXCEPT !.qa = qa_result]
          /\ IF AfterReReview(new_score, current_score, qa_result,
                              revision_cycle) = "qa_loop"
             THEN RevisionLoop(qa_result, revision_cycle)
             ELSE /\ AfterRevisionLoop
                  /\ UNCHANGED revision_cycle
    /\ UNCHANGED frames
    /\ UNCHANGED <<loopUnused, retryVars, toolVars>>

\* validate_consistency returned to run(): the fix when the validation
\* succeeded and is not approved, the final block otherwise.
ValidationReturns ==
    /\ pc = "consistency" /\ Returned("validate_consistency")
    /\ results' = [results EXCEPT !.consistency = agent_result]
    /\ IF ~Get(agent_result, "approved", FALSE)
          /\ Get(agent_result, "success", FALSE)
       THEN /\ pc' = "consistency_fix"
            /\ CallMethod("fix_if_needed")
       ELSE /\ pc' = "classify"
            /\ NoMethod
    /\ UNCHANGED <<revision_cycle, frames>>
    /\ UNCHANGED <<loopUnused, retryVars, toolVars>>

\* fix_if_needed returned: the re-validation when it fixed.
FixReturns ==
    /\ pc = "consistency_fix" /\ Returned("fix_if_needed")
    /\ IF Get(agent_result, "fixed", FALSE)
       THEN /\ pc' = "consistency_revalidate"
            /\ CallMethod("validate_consistency")
       ELSE /\ pc' = "classify"
            /\ NoMethod
    /\ UNCHANGED <<results, revision_cycle, frames>>
    /\ UNCHANGED <<loopUnused, retryVars, toolVars>>

\* The re-validation returned: update_stage("consistency") and the final
\* block.
RevalidationReturns ==
    /\ pc = "consistency_revalidate" /\ Returned("validate_consistency")
    /\ results' = [results EXCEPT !.consistency = agent_result]
    /\ pc' = "classify"
    /\ NoMethod
    /\ UNCHANGED <<revision_cycle, frames>>
    /\ UNCHANGED <<loopUnused, retryVars, toolVars>>

NextLoops ==
    \/ LoopModelCall
    \/ VerificationReturns
    \/ ReviewReturns
    \/ RevisionReturns
    \/ ReReviewReturns
    \/ ValidationReturns
    \/ FixReturns
    \/ RevalidationReturns

\* Every model call and every tool call returns, and run() goes on.
SpecLoops == InitLoops /\ [][NextLoops]_vars /\ WF_vars(NextLoops)

\* ------------------------------------- the chat loop's request with retries
\* The largest retry_attempts a configuration gives.
MaxRetryAttempts == 8

\* HTTP status of a provider error; 0 when the exception carries none.
Statuses == {0, 400, 401, 403, 404, 408, 429, 500, 502, 503, 504}

\* str(exc).lower(), as the phrases the classifiers look for in it.
Messages ==
    { {},
      {"inference server"},
      {"unknown", "error"},
      {"rate limit", "exceeded"},
      {"rate limit", "too many"},
      {"timeout"} }

ProviderErrors == [status : Statuses, message : Messages]

network_hints ==
    {"timeout", "timed out", "connection reset", "temporarily unavailable",
     "connection aborted", "connection refused", "server disconnected"}

is_transient_error(exc) ==
    LET status_code == exc.status
        message == exc.message
    IN IF status_code \in {400, 401, 403} THEN FALSE
       ELSE IF status_code = 429
            THEN ~("rate limit" \in message
                      /\ ("exceeded" \in message \/ "too many" \in message))
       ELSE IF status_code # 0 /\ 400 <= status_code /\ status_code < 500
            THEN FALSE
       ELSE IF status_code \in {408, 500, 502, 503, 504} THEN TRUE
       ELSE network_hints \cap message # {}

is_unrecoverable_error(exc) ==
    LET status_code == exc.status
        message == exc.message
    IN IF status_code \in {401, 403} THEN TRUE
       ELSE IF /\ status_code = 429
               /\ "rate limit" \in message
               /\ ("exceeded" \in message \/ "too many" \in message)
            THEN TRUE
       ELSE IF status_code # 0 /\ 400 <= status_code /\ status_code < 500
            THEN TRUE
       ELSE FALSE

should_retry_provider_error(exc) ==
    LET message == exc.message
    IN IF "inference server" \in message \/ "model inference" \in message
       THEN TRUE
       ELSE IF "unknown" \in message /\ "error" \in message THEN TRUE
       ELSE is_transient_error(exc)

\* BASE_BACKOFF = 1.5, as a fraction; its powers are exact in binary floats.
BASE_BACKOFF == [num |-> 3, den |-> 2]

RECURSIVE Pow(_, _)
Pow(b, n) == IF n = 0 THEN 1 ELSE b * Pow(b, n - 1)

\* x < y for fractions with positive denominators
Less(x, y) == x.num * y.den < y.num * x.den

\* A backoff that sleeps the same delay before every retry.
_sleep_backoff_constant(a) == BASE_BACKOFF

\* _sleep_backoff(attempt): the delay it sleeps, BASE_BACKOFF ** attempt
\* capped at 10 seconds.
_sleep_backoff(a) ==
    LET delay == [num |-> Pow(BASE_BACKOFF.num, a),
                  den |-> Pow(BASE_BACKOFF.den, a)]
    IN IF Less([num |-> 10, den |-> 1], delay)
       THEN [num |-> 10, den |-> 1]
       ELSE delay

\* The chat loop sends a request: max_attempts from the configuration, and
\* the error the provider answers with whenever the request fails.
InitRetry ==
    /\ PipelineInit
    /\ NoAgent
    /\ NoTools
    /\ max_attempts \in 1..MaxRetryAttempts
    /\ attempt = 1
    /\ request_error \in ProviderErrors
    /\ sleeps = <<>>
    /\ request_state = "trying"
    /\ classified = None

\* client.chat.completions.create returns and the stream is read: break.
RequestSucceeds ==
    /\ request_state = "trying"
    /\ request_state' = "answered"
    /\ UNCHANGED <<max_attempts, attempt, request_error, sleeps, classified>>
    /\ UNCHANGED <<pipelineVars, agentVars, toolVars>>

\* The request raises: give up on the last attempt or when the error is not
\* one to retry, and otherwise sleep and try again.
RequestFails ==
    /\ request_state = "trying"
    /\ IF attempt = max_attempts \/ ~should_retry_provider_error(request_error)
       THEN /\ request_state' = "gave_up"
            /\ UNCHANGED <<attempt, sleeps>>
       ELSE /\ sleeps' = Append(sleeps, _sleep_backoff(attempt))
            /\ attempt' = attempt + 1
            /\ UNCHANGED request_state
    /\ UNCHANGED <<max_attempts, request_error, classified>>
    /\ UNCHANGED <<pipelineVars, agentVars, toolVars>>

NextRetry ==
    \/ RequestSucceeds
    \/ RequestFails

SpecRetry == InitRetry /\ [][NextRetry]_vars

\* -------------------------------------------------- the error classifiers
\* A provider error is at hand.
InitClassify ==
    /\ PipelineInit
    /\ NoAgent
    /\ NoTools
    /\ max_attempts = 1
    /\ attempt = 0
    /\ request_error \in ProviderErrors
    /\ sleeps = <<>>
    /\ request_state = "none"
    /\ classified = None

\* is_transient_error(exc) and is_unrecoverable_error(exc) are asked.
ClassifyError ==
    /\ classified = None
    /\ classified' =
           [ transient     |-> is_transient_error(request_error),
             unrecoverable |-> is_unrecoverable_error(request_error) ]
    /\ UNCHANGED <<max_attempts, attempt, request_error, sleeps,
                   request_state>>
    /\ UNCHANGED <<pipelineVars, agentVars, toolVars>>

SpecClassify == InitClassify /\ [][ClassifyError]_vars

\* ------------------------------------------------- the project tools: paths
\* The longest path string handed to set_active_project_folder.
MaxPathLen == 4

\* The path strings handed over, made of four characters.
Paths == UNION { [1..n -> {"/", "o", "_", "."}] : n \in 0..MaxPathLen }

\* str.startswith
StartsWith(s, prefix) == IsPrefix(prefix, s)

\* os.getcwd(): the directory the output root lies in.
Cwd == <<"/">>

\* path.split("/")
RECURSIVE Split(_)
Split(s) ==
    IF \A i \in 1..Len(s) : s[i] # "/"
    THEN <<s>>
    ELSE LET k == CHOOSE i \in 1..Len(s) :
                      /\ s[i] = "/"
                      /\ \A j \in 1..(i - 1) : s[j] # "/"
         IN <<SubSeq(s, 1, k - 1)>> \o Split(SubSeq(s, k + 1, Len(s)))

\* "/".join(comps)
RECURSIVE JoinComps(_)
JoinComps(comps) ==
    IF comps = <<>> THEN <<>>
    ELSE IF Len(comps) = 1 THEN comps[1]
    ELSE comps[1] \o <<"/">> \o JoinComps(Tail(comps))

\* posixpath.normpath, the loop over the components: "" and "." are
\* dropped, ".." removes the component before it.
RECURSIVE NormComps(_, _, _)
NormComps(comps, new_comps, initial_slashes) ==
    IF comps = <<>> THEN new_comps
    ELSE LET comp == Head(comps)
             rest == Tail(comps)
         IN IF comp = <<>> \/ comp = <<".">>
            THEN NormComps(rest, new_comps, initial_slashes)
            ELSE IF \/ comp # <<".", ".">>
                    \/ (initial_slashes = 0 /\ new_comps = <<>>)
                    \/ /\ new_comps # <<>>
                       /\ new_comps[Len(new_comps)] = <<".", ".">>
            THEN NormComps(rest, Append(new_comps, comp), initial_slashes)
            ELSE IF new_comps # <<>>
            THEN NormComps(rest, SubSeq(new_comps, 1, Len(new_comps) - 1),
                           initial_slashes)
            ELSE NormComps(rest, new_comps, initial_slashes)

\* posixpath.normpath
normpath(path) ==
    IF path = <<>> THEN <<".">>
    ELSE LET initial_slashes ==
                 IF ~StartsWith(path, <<"/">>) THEN 0
                 ELSE IF /\ StartsWith(path, <<"/", "/">>)
                         /\ ~StartsWith(path, <<"/", "/", "/">>)
                 THEN 2
                 ELSE 1
             joined == JoinComps(NormComps(Split(path), <<>>, initial_slashes))
             result == [i \in 1..initial_slashes |-> "/"] \o joined
         IN IF result = <<>> THEN <<".">> ELSE result

\* posixpath.join(a, b) for a relative b that is not empty
join(a, b) ==
    IF a[Len(a)] = "/" THEN a \o b ELSE a \o <<"/">> \o b

\* os.path.abspath
abspath(path) ==
    IF StartsWith(path, <<"/">>) THEN normpath(path)
    ELSE IF path = <<>> THEN normpath(Cwd)
    ELSE normpath(join(Cwd, path))

\* get_output_root()
get_output_root == abspath(<<"/", "o">>)

\* A path is the root or lies below it: what os.path.commonpath of the two
\* would tell.
IsUnderRoot(abs_path, abs_root) ==
    \/ abs_path = abs_root
    \/ StartsWith(abs_path, abs_root \o <<"/">>)

\* A check that goes by whole path components.
is_valid_project_path_by_components(path) ==
    IF path = <<>> THEN FALSE
    ELSE IsUnderRoot(abspath(path), get_output_root)

\* is_valid_project_path: normcase is the identity on POSIX, commonpath of
\* two absolute paths does not raise and its value is not used; the answer
\* is the startswith of the two strings.
is_valid_project_path(path) ==
    IF path = <<>> THEN FALSE
    ELSE LET abs_root == get_output_root
             abs_path == abspath(path)
         IN StartsWith(abs_path, abs_root)

\* A caller is about to call set_active_project_folder with some path.
InitProject ==
    /\ PipelineInit
    /\ NoAgent
    /\ NoRequest
    /\ active_project = NoProject
    /\ disk = [f \in FileNames |-> NoFile]
    /\ file_cache = [f \in FileNames |-> None]
    /\ clock = 0
    /\ tool_call \in { [name |-> "calling", folder_path |-> path] :
                          path \in Paths }
    /\ structure = <<>>
    /\ unit_index = 0
    /\ saved = <<>>
    /\ write_return = None

\* set_active_project_folder(folder_path): ValueError for a path that is not
\* valid, and otherwise the absolute path becomes the active project.
SetActiveProjectFolder ==
    /\ tool_call.name = "calling"
    /\ LET folder_path == tool_call.folder_path IN
       IF is_valid_project_path(folder_path)
       THEN /\ active_project' = abspath(folder_path)
            /\ tool_call' = [name |-> "set_active_project_folder",
                             folder_path |-> folder_path,
                             raised |-> FALSE]
       ELSE /\ UNCHANGED active_project
            /\ tool_call' = [name |-> "set_active_project_folder",
                             folder_path |-> folder_path,
                             raised |-> TRUE]
    /\ UNCHANGED <<disk, file_cache, clock, structure, unit_index, saved,
                   write_return>>
    /\ UNCHANGED <<pipelineVars, agentVars, retryVars>>

SpecProject == InitProject /\ [][SetActiveProjectFolder]_vars

\* ------------------------------------------------- the project tools: files
\* Steps of the clock.
MaxTicks == 1
\* Pieces of text a file holds (each write or append adds one).
MaxFileLen == 2

\* tools/reader.py
_CACHE_TTL == 300
_MAX_CACHE_SIZE == 50

\* The content argument of a write; a file's content is the sequence of the
\* pieces written to it.
Contents == {"a", "b"}

\* A file as written at time t.
File(content, t) == [kind |-> "file", content |-> content, mtime |-> t]

\* The folders create_project makes active, and those of them that pass
\* is_valid_project_path(os.path.abspath(project_folder)).
ProjectFolders == {StoryFolder}

ValidProjectFolders ==
    {f \in ProjectFolders : is_valid_project_path(abspath(f))}

\* write_file_impl(filename, content, mode), for a filename that passes the
\* name checks: the folder afterwards and the STATUS word of the return.
write_file_impl(dsk, project_folder, filename, content, mode, t) ==
    IF project_folder = NoProject
    THEN [disk |-> dsk, status |-> "ERROR"]
    ELSE IF project_folder \notin ValidProjectFolders
    THEN [disk |-> dsk, status |-> "ERROR"]
    ELSE
    LET exists == dsk[filename] # NoFile
        mode1 == IF mode = "auto"
                 THEN IF exists THEN "overwrite" ELSE "create"
                 ELSE IF mode = "create" /\ exists THEN "overwrite"
                 ELSE mode
    IN CASE mode1 = "create" ->
              IF exists
              THEN [disk |-> dsk, status |-> "ERROR"]
              ELSE [disk |-> [dsk EXCEPT ![filename] = File(<<content>>, t)],
                    status |-> "CREATED"]
         [] mode1 = "append" ->
              IF ~exists
              THEN [disk |-> dsk, status |-> "ERROR"]
              ELSE [disk |-> [dsk EXCEPT ![filename] =
                                File(Append(dsk[filename].content, content), t)],
                    status |-> "APPENDED"]
         [] mode1 = "overwrite" ->
              IF ~exists
              THEN [disk |-> dsk, status |-> "ERROR"]
              ELSE [disk |-> [dsk EXCEPT ![filename] = File(<<content>>, t)],
                    status |-> "OVERWRITTEN"]
         [] OTHER -> [disk |-> dsk, status |-> "ERROR"]

\* write_chapter_impl(chapter_number, content)
write_chapter_impl(dsk, project_folder, chapter_number, content, t) ==
    IF chapter_number < 1
    THEN [disk |-> dsk, status |-> "ERROR"]
    ELSE write_file_impl(dsk, project_folder, ChapterFile(chapter_number),
                         content, "auto", t)

\* _should_invalidate_cache(file_path, cached_mtime, cache_time)
_should_invalidate_cache(dsk, filename, cached_mtime, cache_time, t) ==
    IF t - cache_time > _CACHE_TTL THEN TRUE
    ELSE IF dsk[filename] = NoFile THEN TRUE
    ELSE dsk[filename].mtime > cached_mtime

\* _read_file_with_cache(file_path, filename) for a file that exists: the
\* cache afterwards, the content returned and was_cached.
_read_file_with_cache(cache, dsk, filename, t) ==
    LET hit == /\ cache[filename] # None
               /\ ~_should_invalidate_cache(dsk, filename,
                                            cache[filename].mtime,
                                            cache[filename].cache_time, t)
        cache1 == [cache EXCEPT ![filename] = None]
        keys == {k \in DOMAIN cache1 : cache1[k] # None}
        cache2 == IF Cardinality(keys) >= _MAX_CACHE_SIZE
                  THEN LET oldest_key ==
                               CHOOSE k \in keys : \A k2 \in keys :
                                   cache1[k].cache_time <= cache1[k2].cache_time
                       IN [cache1 EXCEPT ![oldest_key] = None]
                  ELSE cache1
    IN IF hit
       THEN [cache |-> cache, content |-> cache[filename].content,
             was_cached |-> TRUE]
       ELSE [cache |-> [cache2 EXCEPT ![filename] =
                           [content    |-> dsk[filename].content,
                            mtime      |-> dsk[filename].mtime,
                            cache_time |-> t]],
             content |-> dsk[filename].content,
             was_cached |-> FALSE]

InitTools ==
    /\ PipelineInit
    /\ NoAgent
    /\ NoRequest
    /\ NoTools

\* create_project(project_name) for a name that passes sanitize_folder_name:
\* the folder is made and becomes the active project.
CreateProject ==
    /\ active_project' \in ProjectFolders
    /\ tool_call' = [name |-> "create_project"]
    /\ UNCHANGED <<disk, file_cache, clock, structure, unit_index, saved,
                   write_return>>
    /\ UNCHANGED <<pipelineVars, agentVars, retryVars>>

\* The write_file tool.
WriteFile ==
    /\ \E filename \in FileNames, content \in Contents,
          mode \in {"create", "append", "overwrite", "auto"} :
        LET r == write_file_impl(disk, active_project, filename, content,
                                 mode, clock)
        IN /\ IF r.disk[filename] = NoFile THEN TRUE
              ELSE Len(r.disk[filename].content) <= MaxFileLen
           /\ disk' = r.disk
           /\ tool_call' = [name |-> "write_file", filename |-> filename,
                            mode |-> mode, before |-> disk[filename],
                            status |-> r.status]
    /\ UNCHANGED <<active_project, file_cache, clock, structure, unit_index,
                   saved, write_return>>
    /\ UNCHANGED <<pipelineVars, agentVars, retryVars>>

\* The read_project_files tool, asked for one file by name.
ReadProjectFiles ==
    /\ \E filename \in FileNames :
        IF \/ active_project = NoProject
           \/ active_project \notin ValidProjectFolders
           \/ disk[filename] = NoFile
        THEN /\ tool_call' = [name |-> "read_project_files",
                              filename |-> filename, status |-> "ERROR"]
             /\ UNCHANGED file_cache
        ELSE LET r == _read_file_with_cache(file_cache, disk, filename, clock)
             IN /\ file_cache' = r.cache
                /\ tool_call' = [name |-> "read_project_files",
                                 filename |-> filename, status |-> "OK",
                                 content |-> r.content,
                                 was_cached |-> r.was_cached]
    /\ UNCHANGED <<active_project, disk, clock, structure, unit_index, saved,
                   write_return>>
    /\ UNCHANGED <<pipelineVars, agentVars, retryVars>>

\* The clear_file_cache tool.
ClearFileCache ==
    /\ file_cache' = [f \in DOMAIN file_cache |-> None]
    /\ tool_call' = [name |-> "clear_file_cache"]
    /\ UNCHANGED <<active_project, disk, clock, structure, unit_index, saved,
                   write_return>>
    /\ UNCHANGED <<pipelineVars, agentVars, retryVars>>

\* Time passes between two tool calls: one step of the time stamps, or more
\* than the cache's time to live, MaxTicks steps in all. Calls between two
\* ticks see one time.
Tick ==
    /\ (clock \div (_CACHE_TTL + 1)) + (clock % (_CACHE_TTL + 1)) < MaxTicks
    /\ clock' \in {clock + 1, clock + _CACHE_TTL + 1}
    /\ UNCHANGED <<active_project, disk, file_cache, tool_call, structure,
                   unit_index, saved, write_return>>
    /\ UNCHANGED <<pipelineVars, agentVars, retryVars>>

NextTools ==
    \/ CreateProject
    \/ WriteFile
    \/ ReadProjectFiles
    \/ ClearFileCache
    \/ Tick

SpecTools == InitTools /\ [][NextTools]_vars

\* ------------------------------------------------------ WriterAgent.write
\* The largest number of chapters a prompt asks for.
MaxUnits == 2

ChapterFiles == {ChapterFile(n) : n \in 1..MaxUnits}

\* _analyze_request for a prompt that asks for count chapters.
_analyze_request(count) ==
    [i \in 1..count |-> [type |-> "chapter", number |-> i]]

\* _save_content(unit, content): tool_map has write_chapter, which is called
\* with the unit's number; what the tool returns is dropped.
_save_content(dsk, project_folder, unit, content, t) ==
    write_chapter_impl(dsk, project_folder, unit.number, content, t)

\* write(user_prompt) has analysed the request. The active project is the
\* planner's folder, or None in a process that skipped planning; the folder
\* may hold chapters an earlier run has written.
InitWriter ==
    /\ PipelineInit
    /\ NoAgent
    /\ NoRequest
    /\ active_project \in {NoProject, StoryFolder}
    /\ disk \in [ChapterFiles -> {NoFile, File(<<"a">>, 0)}]
    /\ file_cache = [f \in ChapterFiles |-> None]
    /\ clock = 0
    /\ tool_call = NoOp
    /\ structure \in {_analyze_request(count) : count \in 0..MaxUnits}
    /\ unit_index = 0
    /\ saved = <<>>
    /\ write_return = None

\* One pass of "for unit in structure": the drafts, critiques and the polish
\* come back from the model, and the final content is saved.
WriteUnit ==
    /\ write_return = None
    /\ unit_index < Len(structure)
    /\ \E final_content \in Contents :
        LET unit == structure[unit_index + 1]
            r == _save_content(disk, active_project, unit, final_content,
                               clock)
        IN /\ disk' = r.disk
           /\ saved' = Append(saved, r.status)
           /\ tool_call' = [name |-> "write_chapter",
                            filename |-> ChapterFile(unit.number),
                            status |-> r.status]
    /\ unit_index' = unit_index + 1
    /\ UNCHANGED <<active_project, file_cache, clock, structure,
                   write_return>>
    /\ UNCHANGED <<pipelineVars, agentVars, retryVars>>

\* A model call of _draft_content, _critique_content or _polish_content
\* raises: nothing in write() catches it.
WriteModelError ==
    /\ write_return = None
    /\ unit_index < Len(structure)
    /\ write_return' = [raised |-> TRUE]
    /\ UNCHANGED <<active_project, disk, file_cache, clock, tool_call,
                   structure, unit_index, saved>>
    /\ UNCHANGED <<pipelineVars, agentVars, retryVars>>

\* The return after the loop.
WriteReturn ==
    /\ write_return = None
    /\ unit_index = Len(structure)
    /\ write_return' = [success |-> TRUE, iterations |-> Len(structure) * 3]
    /\ UNCHANGED <<active_project, disk, file_cache, clock, tool_call,
                   structure, unit_index, saved>>
    /\ UNCHANGED <<pipelineVars, agentVars, retryVars>>

NextWriter ==
    \/ WriteUnit
    \/ WriteModelError
    \/ WriteReturn

SpecWriter == InitWriter /\ [][NextWriter]_vars

\* ------------------------------------------------------------- properties
\* The first stage of the fixed order that is not in cs, or "complete".
FirstMissing(cs) ==
    IF \A i \in 1..Len(STAGES) : InList(STAGES[i], cs)
    THEN "complete"
    ELSE STAGES[CHOOSE i \in 1..Len(STAGES) :
                    /\ ~InList(STAGES[i], cs)
                    /\ \A j \in 1..(i - 1) : InList(STAGES[j], cs)]

\* The stage that follows a stage in the fixed order.
Following(stage) ==
    CASE stage = "settings"    -> "planning"
      [] stage = "planning"    -> "writing"
      [] stage = "writing"     -> "qa"
      [] stage = "qa"          -> "consistency"
      [] stage = "consistency" -> "complete"

\* The sessions the program holds: the one in memory and those on disk.
Sessions ==
    (IF session # None THEN {session} ELSE {})
    \cup { files[id].doc : id \in {i \in SessionIds : files[i].kind = "json"} }

\* run() is under way or has returned or raised (resume_session's refusals
\* never enter run()).
InRun == pc \notin {"idle", "rejected"}

\* C1: in every session, in memory or on disk, completed_stages is a prefix
\* of [settings, planning, writing, qa, consistency].
C1_CompletedStagesIsPrefix ==
    \A s \in Sessions : IsPrefix(s.completed_stages, STAGES)

\* C2: in a run that resumed a session, no stage that the loaded session
\* lists as completed is invoked, the result reported for such a stage is
\* never anything but the persisted one, and when run() returns every such
\* stage is reported with its persisted result.
C2_ResumeReusesPersisted ==
    (InRun /\ loaded # None) =>
        \A i \in 1..Len(loaded.completed_stages) :
            LET st == loaded.completed_stages[i] IN
            /\ ~InList(st, calls)
            /\ results[st] \in {None, loaded.results[st]}
            /\ (pc = "returned" => results[st] = loaded.results[st])

\* C2 witness: a resumed run has returned after skipping completed stages
\* and invoking the remaining ones.
C2_Witness ==
    /\ pc = "returned"
    /\ loaded # None
    /\ Len(loaded.completed_stages) >= 2
    /\ Len(calls) >= 2
    /\ results.planning = loaded.results["planning"]

\* C3: in every session the program holds in memory, current_stage is the
\* first stage not in completed_stages, or "complete" when all five are in.
C3_CurrentStageIsFirstMissing ==
    session # None =>
        session.current_stage = FirstMissing(session.completed_stages)

\* C4 as claimed: once a session's status is complete or failed, no step
\* changes it.
C4_TerminalStatusNeverChanges ==
    [][ (session # None /\ session' # None
            /\ session.status \in {"complete", "failed"})
        => session'.status = session.status ]_vars

\* C4 as amended: in the pipeline a complete session stays complete, a
\* failed session stays failed or becomes complete, and no session returns
\* to in_progress.
C4_CompleteIsFinal ==
    [][ (session # None /\ session' # None) =>
            /\ session.status = "complete" => session'.status = "complete"
            /\ session.status = "failed" =>
                   session'.status \in {"failed", "complete"} ]_vars

\* C4 witness: a failed session was resumed by its id and the resumed run
\* carried it to complete.
C4_Witness ==
    /\ pc = "returned"
    /\ loaded # None
    /\ loaded.status = "failed"
    /\ session.status = "complete"

\* C5: with a current session, update_stage(stage, result, success) sets
\* results[stage] = result; when success it leaves stage in completed_stages
\* exactly once, keeping the stages already there in place, and sets
\* current_stage to the following stage ("complete" after the last); when
\* not success it leaves completed_stages, current_stage and status alone.
C5_UpdateStageEffect ==
    [][ (op'.name = "update_stage" /\ api_calls' = api_calls + 1
            /\ session # None)
        => LET stage == op'.stage
               cs    == session.completed_stages
               cs2   == session'.completed_stages
           IN /\ session'.results[stage] = op'.result
              /\ op'.success =>
                    /\ Cardinality({i \in 1..Len(cs2) : cs2[i] = stage}) = 1
                    /\ IsPrefix(cs, cs2)
                    /\ Len(cs2) <= Len(cs) + 1
                    /\ session'.current_stage = Following(stage)
              /\ ~op'.success =>
                    /\ cs2 = cs
                    /\ session'.current_stage = session.current_stage
                    /\ session'.status = session.status ]_vars

\* C5 witness: update_stage was called with success for a stage that was
\* already completed, and the stage is in completed_stages once.
C5_Witness ==
    /\ op.name = "update_stage"
    /\ op.success
    /\ op.repeated
    /\ session # None
    /\ Len(session.completed_stages) = 1

\* C6: a crash leaves every session file a complete record, and once a save
\* is over the session's file equals the session in memory.
C6_AtomicPersistence ==
    /\ pc = "idle" => \A id \in SessionIds : files[id].kind # "partial"
    /\ (InRun /\ io = "closed" /\ session # None)
           => files[session_file] = json_dump(session)

\* C7: once the settings or the planning stage has reported success=false,
\* run() only marks the session failed and returns: no later stage is
\* invoked or reported, no revision cycle runs, the result has success=false
\* and no partial success, and at the return the session is failed with that
\* stage as current_stage.
C7_MandatoryFailureStops ==
    \A st \in {"settings", "planning"} :
        (InRun /\ results[st] # None /\ ~results[st].success) =>
            /\ pc \in {IF st = "settings" THEN "settings_failed"
                                             ELSE "planning_failed",
                       "returned"}
            /\ calls[Len(calls)] = st
            /\ \A later \in StageNames :
                   IndexOf(later, STAGES) > IndexOf(st, STAGES)
                       => results[later] = None
            /\ revision_cycle = 0
            /\ ~results.success
            /\ "partial_success" \notin DOMAIN results
            /\ pc = "returned" =>
                   /\ session.status = "failed"
                   /\ session.current_stage = st
                   /\ session.results[st] = results[st]

\* C7 witness: run() has returned after the planning stage failed.
C7_Witness ==
    /\ pc = "returned"
    /\ results.planning # None
    /\ ~results.planning.success
    /\ session.status = "failed"

\* C8: when run() returns with a qa or consistency result of success=false,
\* the session is failed and no stage after the failed one was invoked.
C8_QaConsistencyFailureAborts ==
    \A st \in {"qa", "consistency"} :
        (pc = "returned" /\ results[st] # None
            /\ ~Get(results[st], "success", FALSE)) =>
            /\ session.status = "failed"
            /\ calls[Len(calls)] = st

\* C9: when run() returns, success holds exactly when writing succeeded and
\* qa and consistency are approved, partial_success exactly when writing
\* succeeded and one of the two is not approved, never both, and neither
\* exactly when writing did not succeed (an earlier abort included).
C9_TerminalClassification ==
    pc = "returned" =>
        LET W == results.writing # None /\ results.writing.success
            Q == results.qa # None /\ Get(results.qa, "approved", FALSE)
            C == /\ results.consistency # None
                 /\ Get(results.consistency, "approved", FALSE)
            succ == results.success
            part == Get(results, "partial_success", FALSE)
        IN /\ succ <=> (W /\ Q /\ C)
           /\ part <=> (W /\ (~Q \/ ~C))
           /\ ~(succ /\ part)
           /\ (~succ /\ ~part) <=> ~W

\* C9 witness: run() returned partial success with qa approved and
\* consistency not approved.
C9_Witness ==
    /\ pc = "returned"
    /\ results.qa # None
    /\ Get(results.qa, "approved", FALSE)
    /\ results.consistency # None
    /\ ~Get(results.consistency, "approved", FALSE)
    /\ Get(results, "partial_success", FALSE)

\* C10: run() never ends with an exception.
C10_RunNeverRaises == pc # "raised"

\* C11: when the loop of plan, review_content or validate_consistency runs
\* out of iterations without the completion sentinel, the method returns
\* success=true with a payload that is not approved, and the result does not
\* make run() abort.
C11_ExhaustionReturnsSuccess ==
    (agent \in {"plan", "review_content", "validate_consistency"}
        /\ exit_reason = "exhausted") =>
        /\ agent_result.success
        /\ ~Get(agent_result, "approved", FALSE)
        /\ agent = "plan" =>
               AfterMandatoryStage("planning", agent_result.success)
                   # "planning_failed"

\* C12: in every agent loop, when a tool raises, the loop goes on (the method
\* does not return through its except) and the history gains a tool-result
\* message with error content and the tool_call_id of the call that raised.
C12_ToolExceptionIsReported ==
    [][ (apc = "tools" /\ tc_index' = tc_index + 1
            /\ tool_calls[tc_index + 1].kind = "raises")
        => /\ exit_reason' # "error"
           /\ messages' = Append(messages,
                  [role |-> "tool",
                   tool_call_id |-> tool_calls[tc_index + 1].id,
                   content |-> "ERROR"]) ]_vars

\* C13: when a tool call's arguments are not JSON, or its name is not in the
\* tool map, the loop appends an error tool-result message for that call,
\* does not return, and goes on to the remaining calls of the response.
C13_BadCallIsReportedAndSkipped ==
    [][ (apc = "tools" /\ tc_index' = tc_index + 1
            /\ tool_calls[tc_index + 1].kind \in {"bad_json", "unknown_tool"})
        => /\ exit_reason' # "error"
           /\ tc_index' < Len(tool_calls) => apc' = "tools"
           /\ messages' = Append(messages,
                  [role |-> "tool",
                   tool_call_id |-> tool_calls[tc_index + 1].id,
                   content |-> "ERROR"]) ]_vars

\* Every tool-result message follows, with only tool-result messages in
\* between, an assistant message that issued its call, and the results
\* that follow one assistant message are in the order of its tool calls.
ToolResultsInOrder(msgs) ==
    \A j \in 1..Len(msgs) :
        msgs[j].role = "tool" =>
            \E i \in 1..(j - 1) :
                /\ msgs[i].role = "assistant"
                /\ \A k \in (i + 1)..j : msgs[k].role = "tool"
                /\ InList(msgs[j].tool_call_id, msgs[i].tool_calls)
                /\ \A k \in (i + 1)..(j - 1) :
                       IndexOf(msgs[k].tool_call_id, msgs[i].tool_calls)
                           < IndexOf(msgs[j].tool_call_id, msgs[i].tool_calls)

\* C14: within one agent loop the message history only grows at its end,
\* and the tool-result messages of a response come after the assistant
\* message that issued the calls, in the order of the calls.
C14_HistoryAppendOnlyAndOrdered ==
    /\ []ToolResultsInOrder(messages)
    /\ [][IsPrefix(messages, messages')]_vars

\* C14 witness: a response issued two tool calls and both results are in
\* the history, after a later response was appended as well.
C14_Witness ==
    /\ agent # "none"
    /\ \E i \in 1..Len(messages) :
        /\ messages[i].role = "assistant"
        /\ Len(messages[i].tool_calls) = 2
        /\ i + 3 <= Len(messages)
        /\ messages[i + 1].role = "tool"
        /\ messages[i + 2].role = "tool"
        /\ messages[i + 1].tool_call_id = messages[i].tool_calls[1]
        /\ messages[i + 2].tool_call_id = messages[i].tool_calls[2]

\* C15 as claimed: when a revision cycle's re-review scores no higher than
\* the review before it, the loop stops and the cycle budget is not spent.
C15_NonImprovementLeavesBudget ==
    [][ (pc = "qa_loop" /\ Len(calls') > Len(calls)
            /\ Get(results'.qa, "score", 0) <= Get(results.qa, "score", 0))
        => /\ pc' = "qa_save"
           /\ revision_cycle' < max_revision_cycles ]_vars

\* C15 as amended: when a revision cycle's re-review scores no higher than
\* the review before it, the loop stops without another cycle; the cycles
\* run never exceed the budget, but the non-improving one may be the last.
C15_NonImprovementStopsLoop ==
    [][ (pc = "qa_loop" /\ Len(calls') > Len(calls)
            /\ Get(results'.qa, "score", 0) <= Get(results.qa, "score", 0))
        => /\ pc' = "qa_save"
           /\ revision_cycle' = revision_cycle + 1
           /\ revision_cycle' <= max_revision_cycles ]_vars

\* C15 witness: the loop ended after its first cycle with a re-reviewed
\* result that is below the target and not approved, which only the
\* non-improvement break allows.
C15_Witness ==
    /\ pc = "qa_save"
    /\ revision_cycle = 1
    /\ Len(calls) >= 2
    /\ calls[Len(calls)] = "qa"
    /\ calls[Len(calls) - 1] = "qa"
    /\ results.qa.success
    /\ ~results.qa.approved
    /\ results.qa.score < QaTargetScore

\* C16: a completed QA review whose text has no "Approved: Yes/No" line is
\* approved exactly when its score is at least the threshold that
\* review_content put in force for that review.
C16_ApprovalFollowsThreshold ==
    (agent = "review_content" /\ exit_reason = "sentinel"
        /\ review_text.approved_line = "none") =>
        /\ quality_threshold =
               _get_context_aware_threshold(phase, iteration_count)
        /\ agent_result.score < quality_threshold => ~agent_result.approved
        /\ agent_result.score >= quality_threshold => agent_result.approved

\* C16 witness: a draft review, the second on its agent, scored exactly the
\* threshold of 80 without an Approved line and is approved.
C16_Witness ==
    /\ agent = "review_content"
    /\ exit_reason = "sentinel"
    /\ review_text.approved_line = "none"
    /\ phase = "draft"
    /\ iteration_count = 2
    /\ quality_threshold = 80
    /\ agent_result.score = 80
    /\ agent_result.approved

\* C17: a request that fails with HTTP 401 is attempted once, whatever the
\* error message says: there is no second attempt and no backoff sleep.
C17_Unauthorized401NeverRetried ==
    (request_state # "none" /\ request_error.status = 401) =>
        /\ attempt = 1
        /\ sleeps = <<>>

StrictlyIncreasing(ds) ==
    \A i \in 1..(Len(ds) - 1) : Less(ds[i], ds[i + 1])

NonDecreasing(ds) ==
    \A i \in 1..(Len(ds) - 1) : ~Less(ds[i + 1], ds[i])

\* C18 as claimed: a request that keeps failing with HTTP 503 is attempted
\* exactly retry_attempts times, and the delays slept between the attempts
\* are strictly increasing, for every configured attempt count.
C18_Retry503StrictBackoff ==
    (request_state = "gave_up" /\ request_error.status = 503) =>
        /\ attempt = max_attempts
        /\ Len(sleeps) = max_attempts - 1
        /\ StrictlyIncreasing(sleeps)

\* C18 as amended: a request that keeps failing with HTTP 503 is attempted
\* exactly retry_attempts times; the delays never decrease, they are
\* strictly increasing up to the sixth (the first at the 10 second cap), and
\* so strictly increasing throughout when retry_attempts is at most 7.
C18_Retry503CappedBackoff ==
    (request_state = "gave_up" /\ request_error.status = 503) =>
        /\ attempt = max_attempts
        /\ Len(sleeps) = max_attempts - 1
        /\ NonDecreasing(sleeps)
        /\ StrictlyIncreasing(SubSeq(sleeps, 1, Min(Len(sleeps), 6)))
        /\ max_attempts <= 7 => StrictlyIncreasing(sleeps)
        /\ \A i \in 1..Len(sleeps) :
               ~Less([num |-> 10, den |-> 1], sleeps[i])

\* C18 witness: eight configured attempts all failed with 503, with seven
\* sleeps in between, the last two at the cap.
C18_Witness ==
    /\ request_state = "gave_up"
    /\ request_error.status = 503
    /\ max_attempts = 8
    /\ attempt = 8
    /\ Len(sleeps) = 7
    /\ sleeps[6] = sleeps[7]

\* C19: when a stage (plan, review_content, validate_consistency) reports
\* failure because its model call met a transient provider error, the call
\* had been retried with backoff: more than one attempt was made and a
\* backoff delay was slept.
C19_StageRetriesTransientError ==
    (agent \in {"plan", "review_content", "validate_consistency"}
        /\ exit_reason = "error"
        /\ request_error # None
        /\ is_transient_error(request_error)) =>
        /\ attempt > 1
        /\ Len(sleeps) >= 1

\* C20: create_session never yields the id of a session that exists: the
\* file it writes is one no earlier session was saved to, so no persisted
\* record is overwritten.
C20_SessionIdsAreUnique ==
    [][ (op'.name = "create_session" /\ created' = created + 1)
        => files[session_file'].kind = "absent" ]_vars

\* C21: in a resumed run, every stage invoked after a planning stage that
\* was skipped as completed works with the inputs an uninterrupted fresh run
\* would have given it: the project_path argument run() hands over is the
\* persisted one, and the active project folder the tools write to and read
\* from is that folder.
C21_ResumedStagesGetFreshInputs ==
    \A st \in {"writing", "qa", "consistency"} :
        (InRun /\ loaded # None /\ InList(st, calls)
            /\ should_skip_stage(loaded, "planning")) =>
            LET planning_result == loaded.results["planning"]
                fresh == PathText(planning_result.project_path)
            IN /\ PathText(Get(results.planning, "project_path", "")) = fresh
               /\ active_project = fresh

\* C22: in every run the stage agents are invoked in the fixed order, none
\* of settings, planning, writing and consistency more than once and qa only
\* again as the re-review of its own revision loop, and each only after every
\* earlier stage has succeeded in this run or was skipped as completed.
C22_StagesInOrderAfterSuccess ==
    InRun =>
        /\ \A i, j \in 1..Len(calls) :
               i < j =>
                   \/ IndexOf(calls[i], STAGES) < IndexOf(calls[j], STAGES)
                   \/ /\ calls[i] = "qa" /\ calls[j] = "qa"
                      /\ j - i <= max_revision_cycles
        /\ \A i \in 1..Len(calls) : \A e \in StageNames :
               IndexOf(e, STAGES) < IndexOf(calls[i], STAGES) =>
                   \/ /\ InList(e, calls)
                      /\ results[e] # None
                      /\ Get(results[e], "success", FALSE)
                   \/ /\ ~InList(e, calls)
                      /\ should_skip_stage(loaded, e)

\* C26: whenever set_active_project_folder accepted a path, that path is the
\* output root or a directory below it, so the active project folder is
\* never outside the output root (a sibling that only shares the root's
\* string prefix is rejected), and a path at or below the root is accepted.
C26_ActiveProjectUnderRoot ==
    /\ active_project # NoProject =>
           IsUnderRoot(active_project, get_output_root)
    /\ tool_call.name = "set_active_project_folder" =>
           (~tool_call.raised <=>
               is_valid_project_path_by_components(tool_call.folder_path))

\* C23: write_file with mode 'create' on a file that exists returns an error
\* status and leaves the file's content as it was.
C23_CreateFailsOnExistingFile ==
    (tool_call.name = "write_file" /\ tool_call.mode = "create"
        /\ tool_call.before # NoFile) =>
        /\ tool_call.status = "ERROR"
        /\ disk[tool_call.filename] = tool_call.before

\* C30: a read of a project file returns the content of the most recent
\* write to it, whatever reads and writes came before and whatever the
\* time stamps of the writes.
C30_ReadReturnsLatestWrite ==
    (tool_call.name = "read_project_files" /\ tool_call.status = "OK") =>
        tool_call.content = disk[tool_call.filename].content

\* C28: when write() returns success=true, every unit of the request was
\* saved without an error status and its file is in the project folder; if
\* a save returned an error (no active project), write() does not report
\* success.
C28_WritingSuccessMeansSaved ==
    (write_return # None /\ Get(write_return, "success", FALSE)) =>
        \A i \in 1..Len(structure) :
            /\ saved[i] # "ERROR"
            /\ disk[ChapterFile(structure[i].number)] # NoFile

\* C25: is_transient_error is true for the statuses 408, 500, 502, 503 and
\* 504, true for 429 exactly when the message has no hard rate limit
\* wording, and false for 400, 401 and 403.
C25_TransientStatuses ==
    classified # None =>
        LET status_code == request_error.status IN
        /\ status_code \in {408, 500, 502, 503, 504} => classified.transient
        /\ status_code = 429 =>
               LET message == request_error.message
                   hard_rate_limit ==
                       /\ "rate limit" \in message
                       /\ ("exceeded" \in message \/ "too many" \in message)
               IN classified.transient <=> ~hard_rate_limit
        /\ status_code \in {400, 401, 403} => ~classified.transient

\* C27: no error is called transient by is_transient_error and
\* unrecoverable by is_unrecoverable_error.
C27_ClassifiersNeverContradict ==
    classified # None =>
        ~(classified.transient /\ classified.unrecoverable)


\* C29: whenever run() has returned, the session's status is "complete"
\* exactly when the result has success or partial_success, "failed"
\* otherwise, and never "in_progress".
C29_StatusAgreesWithResult ==
    pc = "returned" /\ io = "closed" =>
        LET done == results.success \/ Get(results, "partial_success", FALSE)
        IN /\ session # None
           /\ session.status # "in_progress"
           /\ session.status = "complete" <=> done
           /\ session.status = "failed" <=> ~done

\* C29 witness: run() returned a partial success, after the consistency
\* stage was saved as not successful, and the session is complete.
C29_Witness ==
    /\ pc = "returned" /\ io = "closed"
    /\ Get(results, "partial_success", FALSE)
    /\ results.consistency # None
    /\ ~Get(results.consistency, "success", FALSE)
    /\ session.status = "complete"

\* How many times method a stands in the list cs.
Count(a, cs) == Cardinality({i \in 1..Len(cs) : cs[i] = a})

====
